---- MODULE Spec2Model ----
(***************************************************************************)
(* Model of the ordered, dirty-tracked parameter store of rustui:          *)
(*   src/src/persist_order_map.rs  PersistOrderMap (insertion-ordered map) *)
(*   src/src/controls.rs           ControlValue, ControlGroup and the      *)
(*                                 ControlGroupBuilder operations          *)
(*   src/src/slider.rs             the get/set protocol of Slider::ui      *)
(*                                                                         *)
(* The specifications of the module:                                       *)
(*   Spec         one ControlGroup driven by int / float / vec2 /          *)
(*                get_bytes                                                *)
(*   SpecEncode   Spec on a target of either byte order, and the From      *)
(*                conversions of ControlValue applied to arbitrary values  *)
(*   SpecMap      one PersistOrderMap driven by insert and its iterators   *)
(*   SpecAlign    ControlGroup::aligned_size applied to arbitrary sizes    *)
(*   SpecControls Controls::group over several named groups                *)
(***************************************************************************)
EXTENDS Integers, Sequences, FiniteSets, TLC

VARIABLES
  group,         \* the ControlGroup under test (controls.rs:90-96)
  endian,        \* byte order of the build target ("little" or "big")
  last,          \* the most recent builder / get_bytes call and its outcome
  ops,           \* number of calls made so far (bounded by MaxOps)
  map,           \* the PersistOrderMap under test (persist_order_map.rs:4-7)
  first_seen,    \* history: keys in the order of their first insert call
  latest,        \* history: key -> value of its most recent insert call
  map_last,      \* the most recent insert call on map
  sz,            \* SpecAlign: the size field given to aligned_size
  sz_aligned,    \* SpecAlign: the result of aligned_size, -1 before the call
  made,          \* SpecEncode: the ControlValue a From conversion returned
  it,            \* SpecMap: the iterator over map that is alive, if any
  controls,      \* SpecControls: Controls::values, group name -> ControlGroup
  ctl_last       \* SpecControls: the most recent call on controls

vars == <<group, endian, last, ops, map, first_seen, latest, map_last, sz, sz_aligned,
          made, it, controls, ctl_last>>

(***************************************************************************)
(* Bounds of the model.                                                    *)
(***************************************************************************)
MaxNames == 2      \* distinct value names offered to the builder
MaxOps == 3        \* calls made on the group in one run
MaxKeys == 3       \* distinct keys offered to PersistOrderMap::insert
MaxVals == 3       \* distinct values offered to PersistOrderMap::insert
MaxSize == 64      \* largest size handed to aligned_size

NameList == <<"a", "b", "c", "d">>
Names == {NameList[i] : i \in 1..MaxNames}
Keys == 1..MaxKeys
Vals == 1..MaxVals

(***************************************************************************)
(* Option<T>                                                               *)
(***************************************************************************)
None == [some |-> FALSE, v |-> 0]
Some(x) == [some |-> TRUE, v |-> x]

(***************************************************************************)
(* Native values and their byte encodings (to_ne_bytes).                   *)
(* An i32 is an integer; an f32 is its IEEE-754 fields: sign s, biased     *)
(* exponent e (8 bits), fraction m (23 bits).                              *)
(***************************************************************************)
F32(s, e, m) == [s |-> s, e |-> e, m |-> m]
PosZero == F32(0, 0, 0)
NegZero == F32(1, 0, 0)
Five == F32(0, 129, 2097152)         \* 5.0f32 = 0x40A00000
QNaN == F32(0, 255, 4194304)         \* f32::NAN = 0x7FC00000

\* values a slider can hand to its callback
IntVals == {-1, 258}
F32Vals == {PosZero, NegZero, Five, QNaN}
Vec2Comp == {PosZero, Five}
\* defaults the callers of int / float / vec2 pass
IntDefaults == {-1, 258}
F32Defaults == {Five, QNaN}
Vec2Defaults == {<<PosZero, Five>>, <<Five, PosZero>>}

IsNaN(x) == x.e = 255 /\ x.m # 0
IsZero(x) == x.e = 0 /\ x.m = 0
\* f32 `==` (IEEE comparison): NaN equals nothing, +0.0 equals -0.0
F32Eq(x, y) == /\ ~IsNaN(x)
               /\ ~IsNaN(y)
               /\ (x = y \/ (IsZero(x) /\ IsZero(y)))
I32Eq(x, y) == x = y

Reverse(s) == [i \in 1..Len(s) |-> s[Len(s) + 1 - i]]

\* bytes of a 32-bit word, least significant first
I32_le_bytes(i) == <<i % 256, (i \div 256) % 256, (i \div 65536) % 256, (i \div 16777216) % 256>>
F32_le_bytes(x) == <<x.m % 256, (x.m \div 256) % 256,
                     (x.e % 2) * 128 + (x.m \div 65536),
                     x.s * 128 + (x.e \div 2)>>

i32_to_ne_bytes(i, en) == IF en = "little" THEN I32_le_bytes(i) ELSE Reverse(I32_le_bytes(i))
f32_to_ne_bytes(x, en) == IF en = "little" THEN F32_le_bytes(x) ELSE Reverse(F32_le_bytes(x))

(***************************************************************************)
(* ControlValue (controls.rs:6-85): variant tag, native value, bytes, flag *)
(***************************************************************************)
ControlValue(tag, v, b) == [tag |-> tag, v |-> v, b |-> b, flag |-> TRUE]

From_i32(value, en) == ControlValue("Int", value, i32_to_ne_bytes(value, en))
From_bool(value, en) ==
  LET value_ == IF value THEN 1 ELSE 0
  IN ControlValue("Bool", value_, i32_to_ne_bytes(value_, en))
From_f32(value, en) == ControlValue("Float", value, f32_to_ne_bytes(value, en))

\* a conversion that writes the two components in the wrong slots
From_vec2_swapped(value, en) ==
  ControlValue("Vec2", value, f32_to_ne_bytes(value[2], en) \o f32_to_ne_bytes(value[1], en))

From_vec2(value, en) ==
  ControlValue("Vec2", value, f32_to_ne_bytes(value[1], en) \o f32_to_ne_bytes(value[2], en))

From_vec3(value, en) ==
  ControlValue("Vec3", value, f32_to_ne_bytes(value[1], en) \o f32_to_ne_bytes(value[2], en)
                                \o f32_to_ne_bytes(value[3], en))
From_vec4(value, en) ==
  ControlValue("Vec4", value, f32_to_ne_bytes(value[1], en) \o f32_to_ne_bytes(value[2], en)
                                \o f32_to_ne_bytes(value[3], en) \o f32_to_ne_bytes(value[4], en))

ControlValue_size(cv) ==
  CASE cv.tag = "Int" -> 4
    [] cv.tag = "Bool" -> 4
    [] cv.tag = "Float" -> 4
    [] cv.tag = "Vec2" -> 4 * 2
    [] cv.tag = "Vec3" -> 4 * 3
    [] cv.tag = "Vec4" -> 4 * 4

ControlValue_get_bytes(cv) == cv.b

(***************************************************************************)
(* PersistOrderMap (persist_order_map.rs)                                  *)
(***************************************************************************)
EmptyFn == [k \in {} |-> 0]
PersistOrderMap_new == [inner |-> EmptyFn, order |-> <<>>]

\* a membership test that looks at the most recently pushed key only
Contains_last_only(s, key) == Len(s) > 0 /\ s[Len(s)] = key

Contains(s, key) == \E i \in 1..Len(s) : s[i] = key
BTreeMap_insert(inner, key, value) ==
  [k \in (DOMAIN inner) \cup {key} |-> IF k = key THEN value ELSE inner[k]]

\* an insert that moves an overwritten key to the end of order
insert_moves_to_end(m, key, value) ==
  [inner |-> BTreeMap_insert(m.inner, key, value),
   order |-> Append(SelectSeq(m.order, LAMBDA k : k # key), key)]

insert(m, key, value) ==
  [inner |-> BTreeMap_insert(m.inner, key, value),
   order |-> IF ~Contains(m.order, key) THEN Append(m.order, key) ELSE m.order]

contains_key(m, key) == key \in DOMAIN m.inner
get(m, key) == IF key \in DOMAIN m.inner THEN Some(m.inner[key]) ELSE None

\* The entries PersistOrderMapIterator yields to a `for` loop: next() walks
\* order from index and the loop ends at the first None, which is either the
\* end of order or a key that inner does not hold.
RECURSIVE iter_from(_, _)
iter_from(m, index) ==
  IF index < Len(m.order)
    THEN LET key == m.order[index + 1]
         IN IF key \in DOMAIN m.inner
              THEN <<<<key, m.inner[key]>>>> \o iter_from(m, index + 1)
              ELSE <<>>
    ELSE <<>>
iter(m) == iter_from(m, 0)

\* What next() returns: Some((key, value)) or None.
Yield(key, value) == [some |-> TRUE, key |-> key, value |-> value]
End == [some |-> FALSE, key |-> 0, value |-> 0]

\* BTreeMap::get_key_value and BTreeMap::remove
get_key_value(inner, key) == IF key \in DOMAIN inner THEN Yield(key, inner[key]) ELSE End
BTreeMap_remove(inner, key) == [k \in (DOMAIN inner) \ {key} |-> inner[k]]

\* a borrowing iterator that starts at the second entry
PersistOrderMap_iter_skips_first(m) == [index |-> 1]

\* PersistOrderMap::iter: the borrowing iterator is a reference to the map
\* and an index
PersistOrderMap_iter(m) == [index |-> 0]

\* PersistOrderMapIterator::next on the borrowed map m
PersistOrderMapIterator_next(itr, m) ==
  IF itr.index < Len(m.order)
    THEN LET key == m.order[itr.index + 1]
         IN [itr |-> [index |-> itr.index + 1], ret |-> get_key_value(m.inner, key)]
    ELSE [itr |-> itr, ret |-> End]

\* PersistOrderMap::into_iter: the consuming iterator owns the map
into_iter(m) == [map |-> m, index |-> 0]

\* a consuming next() that reads the entry and leaves it in the mapping
IntoIter_next_keeps_entry(itr) ==
  IF itr.index < Len(itr.map.order)
    THEN LET key == itr.map.order[itr.index + 1]
         IN [itr |-> [itr EXCEPT !.index = @ + 1],
             ret |-> get_key_value(itr.map.inner, key)]
    ELSE [itr |-> itr, ret |-> End]

\* IntoIter::next
IntoIter_next(itr) ==
  IF itr.index < Len(itr.map.order)
    THEN LET key == itr.map.order[itr.index + 1]
         IN [itr |-> [itr EXCEPT !.index = @ + 1,
                                 !.map.inner = BTreeMap_remove(@, key)],
             ret |-> get_key_value(itr.map.inner, key)]
    ELSE [itr |-> itr, ret |-> End]

(***************************************************************************)
(* ControlGroup (controls.rs:90-152)                                       *)
(***************************************************************************)
ControlGroup_new(name) ==
  [name |-> name,
   values |-> PersistOrderMap_new,
   packed |-> <<>>,
   needs_update |-> FALSE,
   size |-> 0]

aligned_size(g) ==
  LET pad == 16 - (g.size % 16)
  IN g.size + pad

Zeros(n) == [i \in 1..n |-> 0]

RECURSIVE extend_all(_, _)
\* the loop of pack: package.extend_from_slice(b) for every yielded entry
extend_all(package, entries) ==
  IF entries = <<>>
    THEN package
    ELSE extend_all(package \o ControlValue_get_bytes(Head(entries)[2]), Tail(entries))

\* a pack that walks the values with the consuming iterator
pack_consumes_values(g) ==
  LET package == extend_all(<<>>, iter(g.values))
      pad == aligned_size(g) - g.size
  IN [g EXCEPT !.packed = package \o Zeros(pad), !.values.inner = EmptyFn]

pack(g) ==
  LET package == extend_all(<<>>, iter(g.values))
      pad == aligned_size(g) - g.size
  IN [g EXCEPT !.packed = package \o Zeros(pad)]

\* a get_bytes that repacks but leaves the dirty flag set
ControlGroup_get_bytes_keeps_dirty(g) ==
  IF g.needs_update THEN pack(g) ELSE g

ControlGroup_get_bytes(g) ==
  IF g.needs_update
    THEN [pack(g) EXCEPT !.needs_update = FALSE]
    ELSE g

(***************************************************************************)
(* ControlGroupBuilder (controls.rs:167-258): registration and the get/set *)
(* closures handed to the sliders.  A closure is an operator over what it  *)
(* captured, st = [g, value, name], and returns [st, ret].                 *)
(***************************************************************************)
Captured(g, value, name) == [g |-> g, value |-> value, name |-> name]

\* a registration that stores the default even when the name is present
register_always(g, name, cv) ==
  [g EXCEPT !.values = insert(@, name, cv), !.needs_update = TRUE]

register(g, name, cv) ==
  IF ~contains_key(g.values, name)
    THEN [g EXCEPT !.values = insert(@, name, cv), !.needs_update = TRUE]
    ELSE g

\* a callback without the `v == value` short-circuit
int_get_set_always_writes(st, v, en) ==
  IF v.some
    THEN [st |-> [st EXCEPT !.value = v.v,
                            !.g.values = insert(@, st.name, From_i32(v.v, en)),
                            !.g.needs_update = TRUE],
          ret |-> v.v]
    ELSE [st |-> st, ret |-> st.value]

int_get_set(st, v, en) ==
  IF v.some
    THEN IF I32Eq(v.v, st.value)
           THEN [st |-> st, ret |-> st.value]
           ELSE [st |-> [st EXCEPT !.value = v.v,
                                   !.g.values = insert(@, st.name, From_i32(v.v, en)),
                                   !.g.needs_update = TRUE],
                 ret |-> v.v]
    ELSE [st |-> st, ret |-> st.value]

\* a callback that stores the new value without marking the group dirty
float_get_set_no_dirty(st, v, en) ==
  IF v.some
    THEN IF F32Eq(v.v, st.value)
           THEN [st |-> st, ret |-> st.value]
           ELSE [st |-> [st EXCEPT !.value = v.v,
                                   !.g.values = insert(@, st.name, From_f32(v.v, en))],
                 ret |-> v.v]
    ELSE [st |-> st, ret |-> st.value]

float_get_set(st, v, en) ==
  IF v.some
    THEN IF F32Eq(v.v, st.value)
           THEN [st |-> st, ret |-> st.value]
           ELSE [st |-> [st EXCEPT !.value = v.v,
                                   !.g.values = insert(@, st.name, From_f32(v.v, en)),
                                   !.g.needs_update = TRUE],
                 ret |-> v.v]
    ELSE [st |-> st, ret |-> st.value]

\* a closure that takes an equal value for a sign that the group is clean
vec2_get_set_clean_on_equal(st, v, i, en) ==
  IF v.some
    THEN IF F32Eq(v.v, st.value[i])
           THEN [st |-> [st EXCEPT !.g.needs_update = FALSE], ret |-> st.value[i]]
           ELSE LET value == [st.value EXCEPT ![i] = v.v]
                IN [st |-> [st EXCEPT !.value = value,
                                      !.g.values = insert(@, st.name, From_vec2(value, en)),
                                      !.g.needs_update = TRUE],
                    ret |-> v.v]
    ELSE [st |-> st, ret |-> st.value[i]]

\* the closure of component i (1 = x, 2 = y) of a vec2
vec2_get_set(st, v, i, en) ==
  IF v.some
    THEN IF F32Eq(v.v, st.value[i])
           THEN [st |-> st, ret |-> st.value[i]]
           ELSE LET value == [st.value EXCEPT ![i] = v.v]
                IN [st |-> [st EXCEPT !.value = value,
                                      !.g.values = insert(@, st.name, From_vec2(value, en)),
                                      !.g.needs_update = TRUE],
                    ret |-> v.v]
    ELSE [st |-> st, ret |-> st.value[i]]

(***************************************************************************)
(* Slider::ui (slider.rs:20-91).  get_set_value is a boxed closure: cb     *)
(* names which one it is.  ui queries it with None, replaces the value     *)
(* when the user acts on the widget (ptr), and hands it Some(value).       *)
(* calls lists the arguments of the invocations of the closure, in order.  *)
(***************************************************************************)
get_set_value(cb, st, v, en) ==
  CASE cb = "int" -> int_get_set(st, v, en)
    [] cb = "float" -> float_get_set(st, v, en)
    [] cb = "vec2.x" -> vec2_get_set(st, v, 1, en)
    [] cb = "vec2.y" -> vec2_get_set(st, v, 2, en)

\* a slider that hands a value back only when the user acted on the widget
Slider_ui_sets_on_input_only(cb, st, ptr, en) ==
  LET q == get_set_value(cb, st, None, en)
      r == get_set_value(cb, q.st, Some(ptr.v), en)
  IN IF ptr.some
       THEN [st |-> r.st, ret |-> r.ret, calls |-> <<None, Some(ptr.v)>>]
       ELSE [st |-> q.st, ret |-> q.ret, calls |-> <<None>>]

Slider_ui(cb, st, ptr, en) ==
  LET q == get_set_value(cb, st, None, en)
      value == IF ptr.some THEN ptr.v ELSE q.ret
      r == get_set_value(cb, q.st, Some(value), en)
  IN [st |-> r.st, ret |-> r.ret, calls |-> <<None, Some(value)>>]

(***************************************************************************)
(* int / float / vec2: each returns the group it leaves behind, whether it  *)
(* panicked, and the invocations its sliders made of their closures.       *)
(***************************************************************************)
int(g, name, default, ptr, en) ==
  LET g1 == register(g, name, From_i32(default, en))
      value == g1.values.inner[name]
  IN IF value.tag = "Int"
       THEN LET s == Slider_ui("int", Captured(g1, value.v, name), ptr, en)
            IN [g |-> s.st.g, panicked |-> FALSE, calls |-> s.calls]
       ELSE [g |-> g1, panicked |-> TRUE, calls |-> <<>>]

\* a float that returns without panicking when the variant does not match
float_ignores_mismatch(g, name, default, ptr, en) ==
  LET g1 == register(g, name, From_f32(default, en))
      value == g1.values.inner[name]
  IN IF value.tag = "Float"
       THEN LET s == Slider_ui("float", Captured(g1, value.v, name), ptr, en)
            IN [g |-> s.st.g, panicked |-> FALSE, calls |-> s.calls]
       ELSE [g |-> g1, panicked |-> FALSE, calls |-> <<>>]

float(g, name, default, ptr, en) ==
  LET g1 == register(g, name, From_f32(default, en))
      value == g1.values.inner[name]
  IN IF value.tag = "Float"
       THEN LET s == Slider_ui("float", Captured(g1, value.v, name), ptr, en)
            IN [g |-> s.st.g, panicked |-> FALSE, calls |-> s.calls]
       ELSE [g |-> g1, panicked |-> TRUE, calls |-> <<>>]

\* a vec2 whose y closure works on its own copy of the value read at entry
vec2_separate_copies(g, name, default, ptr1, ptr2, en) ==
  LET g1 == register(g, name, From_vec2(default, en))
      value == g1.values.inner[name]
  IN IF value.tag = "Vec2"
       THEN LET sx == Slider_ui("vec2.x", Captured(g1, value.v, name), ptr1, en)
                sy == Slider_ui("vec2.y", Captured(sx.st.g, value.v, name), ptr2, en)
            IN [g |-> sy.st.g, panicked |-> FALSE, calls |-> sx.calls \o sy.calls]
       ELSE [g |-> g1, panicked |-> TRUE, calls |-> <<>>]

vec2(g, name, default, ptr1, ptr2, en) ==
  LET g1 == register(g, name, From_vec2(default, en))
      value == g1.values.inner[name]
  IN IF value.tag = "Vec2"
       THEN LET sx == Slider_ui("vec2.x", Captured(g1, value.v, name), ptr1, en)
                sy == Slider_ui("vec2.y", sx.st, ptr2, en)
            IN [g |-> sy.st.g, panicked |-> FALSE, calls |-> sx.calls \o sy.calls]
       ELSE [g |-> g1, panicked |-> TRUE, calls |-> <<>>]

(***************************************************************************)
(* Spec: one ControlGroup and the calls made on it.  rustui is built for   *)
(* x86-64 / aarch64 and wasm32, all little-endian, so Spec fixes endian.   *)
(***************************************************************************)
GroupName == "lighting"

Ptr(S) == {None} \cup {Some(x) : x \in S}
Supplied(ptr, stored) == IF ptr.some THEN ptr.v ELSE stored

\* op, name: the call; arg: the value its slider handed to the callback as
\* Some(arg); registered: the name was absent and the call registered it
\* with dflt; dflt_differs: the name was present and `default` was not its
\* stored value; calls: the invocations of the get/set closures the call
\* made, in order.
Call(op, name, arg, registered, dflt, dflt_differs, outcome) ==
  [op |-> op, name |-> name, arg |-> arg, registered |-> registered,
   dflt |-> dflt, dflt_differs |-> dflt_differs, outcome |-> outcome,
   calls |-> <<>>]

NoCall == Call("new", "", 0, FALSE, 0, FALSE, "created")
MapIdle == [key |-> 0, value |-> 0, fresh |-> FALSE]

MapUnused == /\ map = PersistOrderMap_new
             /\ first_seen = <<>>
             /\ latest = EmptyFn
             /\ map_last = MapIdle
AlignUnused == sz = 0 /\ sz_aligned = -1
\* kind: "none", "iter" (PersistOrderMapIterator, a borrow of map) or "into"
\* (IntoIter, which owns its map); returned: the entries next() returned so
\* far; ended: next() has returned None; resumed: next() returned an entry
\* after it had returned None; again: a borrowing iterator has been dropped
\* since the last insert.
Iterator(kind, m, index, again) ==
  [kind |-> kind, map |-> m, index |-> index, returned |-> <<>>, ended |-> FALSE,
   resumed |-> FALSE, again |-> again]
NoIterator == Iterator("none", PersistOrderMap_new, 0, FALSE)
\* op: "new", "group", "get_bytes" or "panic"; name: the group named; build:
\* the builder calls the closure made; created: the call inserted the group
CtlCall(op, name, build, created) ==
  [op |-> op, name |-> name, build |-> build, created |-> created]
CtlIdle == CtlCall("new", "", <<>>, FALSE)
EncodeUnused == made = None
IterUnused == it = NoIterator
ControlsUnused == controls = EmptyFn /\ ctl_last = CtlIdle
GroupUnused == /\ group = ControlGroup_new(GroupName)
               /\ endian = "little"
               /\ last = NoCall
               /\ ops = 0

Init ==
  /\ group = ControlGroup_new(GroupName)
  /\ endian = "little"
  /\ last = NoCall
  /\ ops = 0
  /\ MapUnused
  /\ AlignUnused
  /\ EncodeUnused
  /\ IterUnused
  /\ ControlsUnused

Running == last.outcome # "panic" /\ ops < MaxOps /\ ~made.some
Registered(g, name) == contains_key(g.values, name)
Stored(g, name) == g.values.inner[name]

\* what the call does to the stored value, from its inputs
Outcome(panicked, same) ==
  IF panicked THEN "panic" ELSE IF same THEN "noop" ELSE "changed"

Builder_int(name, default, ptr) ==
  /\ Running
  /\ \E r \in {int(group, name, default, ptr, endian)} :
     LET fresh == ~Registered(group, name)
         typed == fresh \/ Stored(group, name).tag = "Int"
         before == IF fresh \/ ~typed THEN default ELSE Stored(group, name).v
         arg == IF typed THEN Supplied(ptr, before) ELSE 0
     IN /\ group' = r.g
        /\ last' = [Call("int", name, arg, fresh, IF fresh THEN default ELSE 0,
                        ~fresh /\ typed /\ default # before,
                        Outcome(r.panicked, typed /\ I32Eq(arg, before)))
                     EXCEPT !.calls = r.calls]
  /\ ops' = ops + 1
  /\ UNCHANGED <<endian, map, first_seen, latest, map_last, sz, sz_aligned,
                  made, it, controls, ctl_last>>

Builder_float(name, default, ptr) ==
  /\ Running
  /\ \E r \in {float(group, name, default, ptr, endian)} :
     LET fresh == ~Registered(group, name)
         typed == fresh \/ Stored(group, name).tag = "Float"
         before == IF fresh \/ ~typed THEN default ELSE Stored(group, name).v
         arg == IF typed THEN Supplied(ptr, before) ELSE 0
     IN /\ group' = r.g
        /\ last' = [Call("float", name, arg, fresh, IF fresh THEN default ELSE 0,
                        ~fresh /\ typed /\ default # before,
                        Outcome(r.panicked, typed /\ F32Eq(arg, before)))
                     EXCEPT !.calls = r.calls]
  /\ ops' = ops + 1
  /\ UNCHANGED <<endian, map, first_seen, latest, map_last, sz, sz_aligned,
                  made, it, controls, ctl_last>>

Builder_vec2(name, default, ptr1, ptr2) ==
  /\ Running
  /\ \E r \in {vec2(group, name, default, ptr1, ptr2, endian)} :
     LET fresh == ~Registered(group, name)
         typed == fresh \/ Stored(group, name).tag = "Vec2"
         before == IF fresh \/ ~typed THEN default ELSE Stored(group, name).v
         arg == IF typed
                  THEN <<Supplied(ptr1, before[1]), Supplied(ptr2, before[2])>>
                  ELSE 0
     IN /\ group' = r.g
        /\ last' = [Call("vec2", name, arg, fresh, IF fresh THEN default ELSE 0,
                        ~fresh /\ typed /\ default # before,
                        Outcome(r.panicked,
                                typed /\ F32Eq(arg[1], before[1])
                                      /\ F32Eq(arg[2], before[2])))
                     EXCEPT !.calls = r.calls]
  /\ ops' = ops + 1
  /\ UNCHANGED <<endian, map, first_seen, latest, map_last, sz, sz_aligned,
                  made, it, controls, ctl_last>>

GetBytes ==
  /\ Running
  /\ group' = ControlGroup_get_bytes(group)
  /\ last' = Call("get_bytes", "", 0, FALSE, 0, FALSE,
                  IF group.needs_update THEN "repacked" ELSE "cached")
  /\ ops' = ops + 1
  /\ UNCHANGED <<endian, map, first_seen, latest, map_last, sz, sz_aligned,
                  made, it, controls, ctl_last>>

Next ==
  \/ \E name \in Names, default \in IntDefaults, ptr \in Ptr(IntVals) :
       Builder_int(name, default, ptr)
  \/ \E name \in Names, default \in F32Defaults, ptr \in Ptr(F32Vals) :
       Builder_float(name, default, ptr)
  \/ \E name \in Names, default \in Vec2Defaults, ptr1 \in Ptr(Vec2Comp), ptr2 \in Ptr(Vec2Comp) :
       Builder_vec2(name, default, ptr1, ptr2)
  \/ GetBytes

Spec == Init /\ [][Next]_vars

(***************************************************************************)
(* SpecEncode: the group of Spec on a little- or big-endian target, and    *)
(* every From conversion of ControlValue applied once to a native value.   *)
(* A run either drives the group or converts one value.                    *)
(***************************************************************************)
I32Any == {0, -1, 258, 2147483647, -2147483647 - 1}
Arr(n) == [1..n -> F32Vals]

InitEncode ==
  /\ group = ControlGroup_new(GroupName)
  /\ endian \in {"little", "big"}
  /\ last = NoCall
  /\ ops = 0
  /\ MapUnused
  /\ AlignUnused
  /\ EncodeUnused
  /\ IterUnused
  /\ ControlsUnused

Converted(cv) ==
  /\ ops = 0
  /\ ~made.some
  /\ made' = Some(cv)
  /\ UNCHANGED <<group, endian, last, ops, map, first_seen, latest, map_last, sz, sz_aligned,
                  it, controls, ctl_last>>

Convert_i32 == \E value \in I32Any : Converted(From_i32(value, endian))
Convert_bool == \E value \in BOOLEAN : Converted(From_bool(value, endian))
Convert_f32 == \E value \in F32Vals : Converted(From_f32(value, endian))
Convert_vec2 == \E value \in Arr(2) : Converted(From_vec2(value, endian))
Convert_vec3 == \E value \in Arr(3) : Converted(From_vec3(value, endian))
Convert_vec4 == \E value \in Arr(4) : Converted(From_vec4(value, endian))

\* the calls of Spec; the default of a call, which never reaches the bytes
\* but through ControlValue::from, is one value per operation
NextEncode ==
  \/ \E name \in Names, ptr \in Ptr(IntVals) : Builder_int(name, -1, ptr)
  \/ \E name \in Names, ptr \in Ptr(F32Vals) : Builder_float(name, QNaN, ptr)
  \/ \E name \in Names, ptr1 \in Ptr(Vec2Comp), ptr2 \in Ptr(Vec2Comp) :
       Builder_vec2(name, <<PosZero, Five>>, ptr1, ptr2)
  \/ GetBytes
  \/ Convert_i32
  \/ Convert_bool
  \/ Convert_f32
  \/ Convert_vec2
  \/ Convert_vec3
  \/ Convert_vec4

SpecEncode == InitEncode /\ [][NextEncode]_vars

(***************************************************************************)
(* SpecMap: one PersistOrderMap and the insert calls made on it.           *)
(* first_seen and latest are kept from the calls alone, never from map.    *)
(***************************************************************************)
InitMap ==
  /\ MapUnused
  /\ GroupUnused
  /\ AlignUnused
  /\ EncodeUnused
  /\ IterUnused
  /\ ControlsUnused

\* insert takes &mut self: no iterator borrows the map, and the map has not
\* been moved into a consuming iterator
Map_insert(key, value) ==
  /\ it.kind = "none"
  /\ map' = insert(map, key, value)
  /\ first_seen' = IF key \in DOMAIN latest THEN first_seen ELSE Append(first_seen, key)
  /\ latest' = [k \in (DOMAIN latest) \cup {key} |-> IF k = key THEN value ELSE latest[k]]
  /\ map_last' = [key |-> key, value |-> value, fresh |-> key \notin DOMAIN latest]
  /\ it' = NoIterator
  /\ UNCHANGED <<group, endian, last, ops, sz, sz_aligned, made, controls, ctl_last>>

\* what a call of next() that returned ret adds to the record of the iterator
Record(itr, ret) ==
  [itr EXCEPT !.returned = IF ret.some THEN Append(@, ret) ELSE @,
              !.ended = @ \/ ~ret.some,
              !.resumed = @ \/ (itr.ended /\ ret.some)]

\* map.iter()
Map_iter ==
  /\ it.kind = "none"
  /\ it' = Iterator("iter", PersistOrderMap_new, PersistOrderMap_iter(map).index, it.again)
  /\ UNCHANGED <<map, first_seen, latest, map_last, group, endian, last, ops, sz, sz_aligned,
                  made, controls, ctl_last>>

\* next() on the borrowing iterator
Map_iter_next ==
  /\ it.kind = "iter"
  /\ \E r \in {PersistOrderMapIterator_next([index |-> it.index], map)} :
       it' = Record([it EXCEPT !.index = r.itr.index], r.ret)
  /\ UNCHANGED <<map, first_seen, latest, map_last, group, endian, last, ops, sz, sz_aligned,
                  made, controls, ctl_last>>

\* the borrowing iterator goes out of scope
Map_iter_drop ==
  /\ it.kind = "iter"
  /\ it' = [NoIterator EXCEPT !.again = TRUE]
  /\ UNCHANGED <<map, first_seen, latest, map_last, group, endian, last, ops, sz, sz_aligned,
                  made, controls, ctl_last>>

\* map.into_iter(): the map moves into the iterator
Map_into_iter ==
  /\ it.kind = "none"
  /\ \E r \in {into_iter(map)} :
       it' = Iterator("into", r.map, r.index, FALSE)
  /\ UNCHANGED <<map, first_seen, latest, map_last, group, endian, last, ops, sz, sz_aligned,
                  made, controls, ctl_last>>

\* next() on the consuming iterator
Map_into_iter_next ==
  /\ it.kind = "into"
  /\ \E r \in {IntoIter_next([map |-> it.map, index |-> it.index])} :
       it' = Record([it EXCEPT !.map = r.itr.map, !.index = r.itr.index], r.ret)
  /\ UNCHANGED <<map, first_seen, latest, map_last, group, endian, last, ops, sz, sz_aligned,
                  made, controls, ctl_last>>

NextMap ==
  \/ \E key \in Keys, value \in Vals : Map_insert(key, value)
  \/ Map_iter
  \/ Map_iter_next
  \/ Map_iter_drop
  \/ Map_into_iter
  \/ Map_into_iter_next

SpecMap == InitMap /\ [][NextMap]_vars

(***************************************************************************)
(* SpecAlign: aligned_size applied to a group whose size field is sz.      *)
(***************************************************************************)
InitAlign ==
  /\ sz \in 0..MaxSize
  /\ sz_aligned = -1
  /\ GroupUnused
  /\ MapUnused
  /\ EncodeUnused
  /\ IterUnused
  /\ ControlsUnused

WithSize(n) == [ControlGroup_new(GroupName) EXCEPT !.size = n]

Align ==
  /\ sz_aligned = -1
  /\ sz_aligned' = aligned_size(WithSize(sz))
  /\ UNCHANGED <<sz, group, endian, last, ops, map, first_seen, latest, map_last,
                  made, it, controls, ctl_last>>

NextAlign == Align

SpecAlign == InitAlign /\ [][NextAlign]_vars

(***************************************************************************)
(* Vocabulary of the properties.                                           *)
(***************************************************************************)
(* SpecControls: one Controls, the groups built through Controls::group    *)
(* and read through get_mut(name).get_bytes().                             *)
(***************************************************************************)
GroupNames == {"lighting", "camera"}

\* The closures handed to Controls::group: each makes no builder call, or one
\* int call on one of two names.
BuilderCall(name, default, ptr) == [name |-> name, default |-> default, ptr |-> ptr]
Builds ==
  {<<>>} \cup {<<BuilderCall(NameList[i], -1, ptr)>> : i \in 1..2, ptr \in {None, Some(258)}}

\* build(builder): the builder calls of the closure, made on group g
RECURSIVE Build(_, _, _)
Build(build, g, en) ==
  IF build = <<>>
    THEN g
    ELSE Build(Tail(build),
               int(g, Head(build).name, Head(build).default, Head(build).ptr, en).g, en)

\* a group() that inserts a new group whether or not the name is registered
Controls_group_always_inserts(values, name, build, en) ==
  LET inserted == BTreeMap_insert(values, name,
                    [name |-> name, values |-> PersistOrderMap_new, packed |-> <<>>,
                     needs_update |-> FALSE, size |-> 0])
  IN [inserted EXCEPT ![name] = Build(build, @, en)]

\* Controls::group, on Controls::values
Controls_group(values, name, build, en) ==
  LET inserted ==
        IF ~(name \in DOMAIN values)
          THEN BTreeMap_insert(values, name,
                 [name |-> name, values |-> PersistOrderMap_new, packed |-> <<>>,
                  needs_update |-> FALSE, size |-> 0])
          ELSE values
  IN [inserted EXCEPT ![name] = Build(build, @, en)]

InitControls ==
  /\ controls = EmptyFn
  /\ ctl_last = CtlIdle
  /\ GroupUnused
  /\ MapUnused
  /\ AlignUnused
  /\ EncodeUnused
  /\ IterUnused

CtlRunning == ctl_last.op # "panic" /\ ops < MaxOps

Ctl_group(name, build) ==
  /\ CtlRunning
  /\ controls' = Controls_group(controls, name, build, endian)
  /\ ctl_last' = CtlCall("group", name, build, name \notin DOMAIN controls)
  /\ ops' = ops + 1
  /\ UNCHANGED <<group, endian, last, map, first_seen, latest, map_last, sz, sz_aligned,
                  made, it>>

\* controls.get_mut(name).get_bytes(): get_mut unwraps, so an unregistered
\* name panics
Ctl_get_bytes(name) ==
  /\ CtlRunning
  /\ IF name \in DOMAIN controls
       THEN /\ controls' = [controls EXCEPT ![name] = ControlGroup_get_bytes(@)]
            /\ ctl_last' = CtlCall("get_bytes", name, <<>>, FALSE)
       ELSE /\ controls' = controls
            /\ ctl_last' = CtlCall("panic", name, <<>>, FALSE)
  /\ ops' = ops + 1
  /\ UNCHANGED <<group, endian, last, map, first_seen, latest, map_last, sz, sz_aligned,
                  made, it>>

NextControls ==
  \/ \E name \in GroupNames, build \in Builds : Ctl_group(name, build)
  \/ \E name \in GroupNames : Ctl_get_bytes(name)

SpecControls == InitControls /\ [][NextControls]_vars

(***************************************************************************)
Setters == {"int", "float", "vec2"}
TagOf(op) == CASE op = "int" -> "Int" [] op = "float" -> "Float" [] op = "vec2" -> "Vec2"
FromOp(op, v) ==
  CASE op = "int" -> From_i32(v, endian)
    [] op = "float" -> From_f32(v, endian)
    [] op = "vec2" -> From_vec2(v, endian)

\* the buffer a get_bytes() call made now returns
Returned(g) == ControlGroup_get_bytes(g).packed

RECURSIVE ConcatInOrder(_, _)
\* byte encodings of the values named by ord, one after the other
ConcatInOrder(inner, ord) ==
  IF ord = <<>> THEN <<>> ELSE inner[Head(ord)].b \o ConcatInOrder(inner, Tail(ord))

RECURSIVE SumOfLengths(_, _)
SumOfLengths(inner, ord) ==
  IF ord = <<>> THEN 0 ELSE Len(inner[Head(ord)].b) + SumOfLengths(inner, Tail(ord))

\* smallest non-negative amount that brings n to a multiple of 16
SmallestPad(n) == (16 - (n % 16)) % 16

PackedFromScratch(g) ==
  LET body == ConcatInOrder(g.values.inner, g.values.order)
  IN body \o Zeros(SmallestPad(Len(body)))

IndexOf(s, x) == CHOOSE i \in 1..Len(s) : s[i] = x
\* byte offset of a registered value: the lengths of the values before it
Offset(g, name) ==
  SumOfLengths(g.values.inner, SubSeq(g.values.order, 1, IndexOf(g.values.order, name) - 1))
Slice(s, off, n) == SubSeq(s, off + 1, off + n)

(***************************************************************************)
(* C1-C4: packing, size and alignment                                      *)
(***************************************************************************)
\* C1: in every reachable state get_bytes() returns the from-scratch packing
\* of the current values: their encodings in insertion order followed by the
\* zero padding up to the next 16-byte boundary; and whenever needs_update is
\* false the cached packed buffer already is that packing.
C1_ReturnsFromScratchPacking ==
  /\ Returned(group) = PackedFromScratch(group)
  /\ ~group.needs_update => group.packed = PackedFromScratch(group)

\* C2: in every reachable state the buffer get_bytes() returns is
\* aligned_size() bytes long, and that length is a multiple of 16.
C2_LengthIsAlignedSize ==
  /\ Len(Returned(group)) = aligned_size(group)
  /\ Len(Returned(group)) % 16 = 0

\* C3: in every reachable state `size` is the sum of the encoding lengths of
\* the registered values.
C3_SizeIsSumOfLengths ==
  group.size = SumOfLengths(group.values.inner, group.values.order)

\* C4: for every size, aligned_size() is a multiple of 16 and exceeds size by
\* a pad in 0..15.
C4_AlignmentLaw ==
  sz_aligned # -1 => /\ sz_aligned % 16 = 0
                     /\ sz_aligned - sz \in 0..15

(***************************************************************************)
(* C5: order invariant of PersistOrderMap (SpecMap)                        *)
(***************************************************************************)
IterKeys(m) == [i \in 1..Len(iter(m)) |-> iter(m)[i][1]]
IterValues(m) == [i \in 1..Len(iter(m)) |-> iter(m)[i][2]]

\* C5: after any sequence of insert calls, iter() yields every key ever
\* inserted exactly once, in the order of the keys' first insert calls, each
\* with the value of its most recent insert call, and get(key) returns that
\* value; an overwrite therefore never moves a key.
C5_OrderInvariant ==
  /\ IterKeys(map) = first_seen
  /\ \A i \in 1..Len(first_seen) : IterValues(map)[i] = latest[first_seen[i]]
  /\ \A k \in Keys : get(map, k) = IF k \in DOMAIN latest THEN Some(latest[k]) ELSE None

\* the "b, a, b" case: the first-inserted key is the larger one and has just
\* been overwritten with a new value
C5_Witness ==
  /\ Len(first_seen) >= 2
  /\ first_seen[1] > first_seen[2]
  /\ map_last.key = first_seen[1]
  /\ ~map_last.fresh
  /\ map.order = first_seen

(***************************************************************************)
(* C6-C10: the builder operations and get_bytes (Spec)                     *)
(***************************************************************************)
\* the value a name held when the slider of the call recorded in last' ran
BeforeCall == IF last'.registered THEN last'.dflt ELSE Stored(group, last'.name).v

\* the native value the call recorded in last' must leave behind
AfterCall ==
  IF last'.op = "vec2"
    THEN [i \in 1..2 |-> IF F32Eq(last'.arg[i], BeforeCall[i])
                           THEN BeforeCall[i]
                           ELSE last'.arg[i]]
    ELSE last'.arg

C6_Step ==
  (last'.op \in Setters /\ last'.outcome = "changed") =>
    LET cv == Stored(group', last'.name)
    IN /\ cv = FromOp(last'.op, AfterCall)
       /\ group'.needs_update
       /\ Slice(Returned(group'), Offset(group', last'.name), Len(cv.b)) = cv.b

\* C6: a setter call that supplies a value different from the stored one
\* replaces the stored native value and its encoding, sets needs_update, and
\* the next get_bytes() returns a buffer holding the new encoding at the
\* value's offset.
C6_ChangeMarksDirty == [][C6_Step]_vars

\* a value registered second, already packed once, has just been changed
C6_Witness ==
  /\ last.op \in Setters
  /\ last.outcome = "changed"
  /\ ~last.registered
  /\ Len(group.values.order) = 2
  /\ group.values.order[2] = last.name

C7_Step ==
  (last'.op \in Setters /\ ~last'.registered /\ last'.outcome = "noop") => group' = group

\* C7: a setter call that supplies a value equal to the stored value of an
\* already registered name changes nothing of the group: value, encoding,
\* order, needs_update and the cached packed buffer stay as they were.
C7_NoOpMutation == [][C7_Step]_vars

\* a no-op call on a group whose cache is valid and not empty
C7_Witness ==
  /\ last.op \in Setters
  /\ last.outcome = "noop"
  /\ ~last.registered
  /\ ~group.needs_update
  /\ group.packed # <<>>

C8_Step ==
  (last.op = "get_bytes" /\ last'.op = "get_bytes") =>
    /\ ~group.needs_update
    /\ last'.outcome = "cached"
    /\ group'.packed = group.packed
    /\ group' = group

\* C8: of two consecutive get_bytes() calls the second finds needs_update
\* false, does not repack and returns the same bytes as the first.
C8_PackingIdempotent == [][C8_Step]_vars

\* register, get_bytes (repack), get_bytes (cached)
C8_Witness ==
  /\ last.op = "get_bytes"
  /\ last.outcome = "cached"
  /\ group.packed # <<>>
  /\ ops = 3
  /\ Len(group.values.order) = 1

C9_Step ==
  (last'.op \in Setters /\ last'.outcome # "panic") =>
    LET name == last'.name
    IN IF last'.registered
         THEN /\ ~Registered(group, name)
              /\ group'.values.order = Append(group.values.order, name)
              /\ group'.needs_update
              /\ Stored(group', name) =
                   IF last'.outcome = "noop"
                     THEN FromOp(last'.op, last'.dflt)
                     ELSE FromOp(last'.op, AfterCall)
         ELSE /\ Registered(group, name)
              /\ group'.values.order = group.values.order
              /\ Stored(group', name) =
                   IF last'.outcome = "noop"
                     THEN Stored(group, name)
                     ELSE FromOp(last'.op, AfterCall)
              /\ group'.needs_update = (group.needs_update \/ last'.outcome = "changed")

\* C9: int / float / vec2 on an unregistered name appends the name to the
\* insertion order, stores the default (which only the slider of the same
\* call may then replace) and sets needs_update; on a registered name the
\* default plays no part: order is kept, the stored value is the old one or
\* the one the slider supplied, and needs_update is raised only by a change.
C9_FirstRegistration == [][C9_Step]_vars

\* a call on a registered name whose default differs from the stored value
C9_Witness ==
  /\ last.op \in Setters
  /\ last.dflt_differs
  /\ last.outcome = "noop"
  /\ Len(group.values.order) = 2

C10_Step ==
  (/\ last'.op \in Setters
   /\ Registered(group, last'.name)
   /\ Stored(group, last'.name).tag # TagOf(last'.op)) =>
    /\ last'.outcome = "panic"
    /\ group' = group

\* C10: a typed operation on a name registered under another variant panics
\* and leaves the group as it was: variant, value, encoding, needs_update and
\* packed are untouched; no call follows the panic.
C10_TypeMismatchPanics == [][C10_Step /\ (last.outcome = "panic" => UNCHANGED vars)]_vars

\* a panic on a group that holds a packed value
C10_Witness ==
  /\ last.outcome = "panic"
  /\ group.packed # <<>>
  /\ Len(group.values.order) = 1


(***************************************************************************)
(* Reading a native value back from its bytes (from_ne_bytes).             *)
(***************************************************************************)
ToLittle(b, en) == IF en = "little" THEN b ELSE Reverse(b)
i32_from_ne_bytes(b, en) ==
  LET le == ToLittle(b, en)
      low == le[1] + 256 * le[2] + 65536 * le[3] + 16777216 * (le[4] % 128)
  IN IF le[4] >= 128 THEN (low - 2147483647) - 1 ELSE low
f32_from_ne_bytes(b, en) ==
  LET le == ToLittle(b, en)
  IN F32(le[4] \div 128,
         (le[4] % 128) * 2 + (le[3] \div 128),
         le[1] + 256 * le[2] + 65536 * (le[3] % 128))
Components(tag) ==
  CASE tag = "Vec2" -> 2
    [] tag = "Vec3" -> 3
    [] tag = "Vec4" -> 4
Decode(tag, b, en) ==
  IF tag \in {"Int", "Bool"} THEN i32_from_ne_bytes(b, en)
  ELSE IF tag = "Float" THEN f32_from_ne_bytes(b, en)
  ELSE [i \in 1..Components(tag) |-> f32_from_ne_bytes(SubSeq(b, 4 * i - 3, 4 * i), en)]
EncodedLength(tag) ==
  CASE tag = "Int" -> 4
    [] tag = "Bool" -> 4
    [] tag = "Float" -> 4
    [] tag = "Vec2" -> 8
    [] tag = "Vec3" -> 12
    [] tag = "Vec4" -> 16
IsByte(x) == x \in 0..255
InSync(cv, en) ==
  /\ Len(cv.b) = EncodedLength(cv.tag)
  /\ Len(cv.b) = ControlValue_size(cv)
  /\ \A i \in 1..Len(cv.b) : IsByte(cv.b[i])
  /\ Decode(cv.tag, cv.b, en) = cv.v

\* C11: in every reachable state, on a target of either byte order, every
\* value stored in the group, and every value a From conversion returns,
\* carries 4 (Int, Bool, Float), 8 (Vec2), 12 (Vec3) or 16 (Vec4) bytes, and
\* reading these bytes back component by component in index order gives
\* exactly its native value.
C11_EncodingInSync ==
  /\ \A name \in DOMAIN group.values.inner : InSync(Stored(group, name), endian)
  /\ made.some => InSync(made.v, endian)

\* a Vec2 with two distinct components was overwritten by its setter on a
\* big-endian target
C11_Witness ==
  /\ endian = "big"
  /\ last.op = "vec2"
  /\ last.outcome = "changed"
  /\ ~last.registered
  /\ Stored(group, last.name).v = last.arg
  /\ last.arg[1] # last.arg[2]

(***************************************************************************)
(* The frame protocol of a slider.                                         *)
(***************************************************************************)
\* the step is a redraw of the slider(s) of a registered name of the
\* matching variant in which the user does not touch the widget
IdleFrame ==
  /\ last'.op \in Setters
  /\ last'.outcome # "panic"
  /\ ~last'.registered
  /\ \E name \in {last'.name} :
       CASE last'.op = "int" ->
              \E default \in IntDefaults : Builder_int(name, default, None)
         [] last'.op = "float" ->
              \E default \in F32Defaults : Builder_float(name, default, None)
         [] last'.op = "vec2" ->
              \E default \in Vec2Defaults : Builder_vec2(name, default, None, None)

NoSome(calls) == \A i \in 1..Len(calls) : ~calls[i].some
ClosuresOf(tag) ==
  CASE tag = "Int" -> {"int"}
    [] tag = "Float" -> {"float"}
    [] tag = "Vec2" -> {"vec2.x", "vec2.y"}
Component(cb, v) ==
  CASE cb = "vec2.x" -> v[1]
    [] cb = "vec2.y" -> v[2]
    [] OTHER -> v
SelfEqual(tag, v) ==
  CASE tag = "Int" -> I32Eq(v, v)
    [] tag = "Float" -> F32Eq(v, v)
    [] tag = "Vec2" -> F32Eq(v[1], v[1]) /\ F32Eq(v[2], v[2])

\* C12 as stated: the callback is invoked with a new value (Some) only in
\* frames where the user interacted with the widget, so a frame without
\* user interaction on an already registered value makes no setter call.
C12_SomeOnlyOnInteraction == [][IdleFrame => NoSome(last'.calls)]_vars

\* the query with None returns the stored value and leaves the closure's
\* captures, the group among them, as they were
QueryIsPure ==
  \A name \in DOMAIN group.values.inner :
    \A cb \in ClosuresOf(Stored(group, name).tag) :
      LET st == Captured(group, Stored(group, name).v, name)
          q == get_set_value(cb, st, None, endian)
      IN /\ q.st = st
         /\ q.ret = Component(cb, Stored(group, name).v)

C12_Step ==
  /\ (last'.op \in Setters /\ last'.outcome # "panic") =>
       last'.calls = IF last'.op = "vec2"
                       THEN <<None, Some(last'.arg[1]), None, Some(last'.arg[2])>>
                       ELSE <<None, Some(last'.arg)>>
  /\ IdleFrame =>
       LET cv == Stored(group, last'.name)
       IN /\ last'.arg = cv.v
          /\ group' = IF SelfEqual(cv.tag, cv.v)
                        THEN group
                        ELSE [group EXCEPT !.needs_update = TRUE]

\* C12 (amended): in every redraw of a slider the callback is first invoked
\* with None, which never modifies the group, and is then invoked with
\* Some(value) in every frame, whether or not the user interacted; without
\* interaction the value is the one the query returned, so on a registered
\* value the frame leaves the group unchanged, unless the stored value is
\* not `==` to itself (a NaN): then the frame marks the group dirty.
C12_SliderFrame == []QueryIsPure /\ [][C12_Step]_vars

\* an idle frame on a stored NaN: the slider handed the NaN back and the
\* group, packed before, is dirty again
C12_Witness ==
  /\ last.op = "float"
  /\ ~last.registered
  /\ last.calls = <<None, Some(QNaN)>>
  /\ Stored(group, last.name).v = QNaN
  /\ group.needs_update
  /\ group.packed # <<>>

(***************************************************************************)
(* The iterators of PersistOrderMap, against the history of the inserts.   *)
(***************************************************************************)
\* the i-th entry in first-insertion order, with its latest value
Entry(i) == Yield(first_seen[i], latest[first_seen[i]])
ReturnedInOrder ==
  /\ Len(it.returned) <= Len(first_seen)
  /\ \A i \in 1..Len(it.returned) : it.returned[i] = Entry(i)
NotYetReturned == {first_seen[j] : j \in (Len(it.returned) + 1)..Len(first_seen)}

\* C13: consuming iteration returns every (key, value) entry exactly once in
\* first-insertion order, each entry leaves the iterator's mapping at the
\* moment it is returned, no entry follows a None, and once next() has
\* returned None the mapping is empty.
C13_ConsumingIteration ==
  it.kind = "into" =>
    /\ ReturnedInOrder
    /\ DOMAIN it.map.inner = NotYetReturned
    /\ \A k \in DOMAIN it.map.inner : it.map.inner[k] = latest[k]
    /\ it.index = Len(it.returned)
    /\ it.ended => (Len(it.returned) = Len(first_seen) /\ it.map.inner = EmptyFn)
    /\ ~it.resumed

\* a map of three keys, first inserted out of key order, has been consumed
\* to the end
C13_Witness ==
  /\ it.kind = "into"
  /\ it.ended
  /\ Len(it.returned) = 3
  /\ it.returned[1].key > it.returned[2].key
  /\ ~map_last.fresh

\* C14: every borrowing iterator, the first and any later one, starts at
\* the first-inserted entry, returns the entries in first-insertion order,
\* as many as there are distinct keys, and after that None and never an
\* entry again, while the mapping and the order sequence stay what the
\* inserts made them; so all traversals between two inserts return the same
\* sequence.
C14_BorrowingIteration ==
  it.kind = "iter" =>
    /\ ReturnedInOrder
    /\ it.index = Len(it.returned)
    /\ it.ended => Len(it.returned) = Cardinality(DOMAIN latest)
    /\ ~it.resumed
    /\ map.order = first_seen
    /\ map.inner = latest

\* a second traversal of a map of two or more keys, first inserted out of
\* key order, has reached its end
C14_Witness ==
  /\ it.kind = "iter"
  /\ it.again
  /\ it.ended
  /\ Len(it.returned) >= 2
  /\ it.returned[1].key > it.returned[2].key

Range(s) == {s[i] : i \in 1..Len(s)}
NoDuplicate(s) == \A i, j \in 1..Len(s) : s[i] = s[j] => i = j

\* C15: after any sequence of inserts the order sequence has no duplicate
\* key and holds exactly the keys of the inner mapping, so a borrowing
\* traversal visits every position of order: it never stops on a key that is
\* missing from the mapping.
C15_MapConsistency ==
  /\ NoDuplicate(map.order)
  /\ Range(map.order) = DOMAIN map.inner
  /\ Len(iter(map)) = Len(map.order)
  /\ (it.kind = "iter" /\ it.ended) => it.index = Len(map.order)

\* three keys, and the first-inserted one has just been overwritten
C15_Witness ==
  /\ Len(map.order) = 3
  /\ ~map_last.fresh
  /\ map_last.key = map.order[1]
  /\ map.inner[map_last.key] = map_last.value

(***************************************************************************)
(* The dirty flag, the vec2 update and the layout, step by step.           *)
(***************************************************************************)
C16_Step ==
  /\ (group.needs_update /\ last'.op # "get_bytes") => group'.needs_update
  /\ (group.needs_update /\ ~group'.needs_update) => last'.op = "get_bytes"
  /\ last'.op = "get_bytes" => ~group'.needs_update

\* C16: once needs_update is true it stays true through every registration
\* and every setter call, changing, no-op or panicking, until a get_bytes()
\* call, the only operation that sets it to false; and right after any
\* get_bytes() call needs_update is false.
C16_DirtyUntilRepacked == [][C16_Step]_vars

\* a no-op setter call on a dirty group has left it dirty
C16_Witness ==
  /\ last.op \in Setters
  /\ last.outcome = "noop"
  /\ ~last.registered
  /\ group.needs_update

Differs(i) == ~F32Eq(last'.arg[i], BeforeCall[i])
\* the bytes of component i before the call: of the stored value, or of the
\* default the call registers
BytesBefore(i) ==
  IF last'.registered
    THEN f32_to_ne_bytes(last'.dflt[i], endian)
    ELSE Slice(Stored(group, last'.name).b, 4 * (i - 1), 4)

C17_Step ==
  (last'.op = "vec2" /\ last'.outcome # "panic") =>
    LET cv == Stored(group', last'.name)
    IN /\ cv.tag = "Vec2"
       /\ Len(cv.b) = 8
       /\ \A i \in 1..2 :
            IF Differs(i)
              THEN /\ cv.v[i] = last'.arg[i]
                   /\ Slice(cv.b, 4 * (i - 1), 4) = f32_to_ne_bytes(last'.arg[i], endian)
              ELSE /\ cv.v[i] = BeforeCall[i]
                   /\ Slice(cv.b, 4 * (i - 1), 4) = BytesBefore(i)
       /\ group'.needs_update =
            ((group.needs_update \/ last'.registered) \/ Differs(1) \/ Differs(2))

\* C17: after a vec2 call, each component the user changed is stored with
\* its new value and its 4 bytes, both of them when both changed, and each
\* component the user left alone keeps its value and its 4 bytes; the two
\* sliders set needs_update iff at least one component differs under `==`
\* from the stored one, on top of the flag as the registration step of the
\* call left it.
C17_Vec2ComponentWise == [][C17_Step]_vars

\* both components changed in the call that registered the name
C17_Witness ==
  /\ last.op = "vec2"
  /\ last.registered
  /\ ~F32Eq(last.dflt[1], last.arg[1])
  /\ ~F32Eq(last.dflt[2], last.arg[2])
  /\ Stored(group, last.name).v = last.arg

\* the byte offsets of the values of a map, in insertion order, from `at`
RECURSIVE Offsets(_, _, _)
Offsets(inner, ord, at) ==
  IF ord = <<>>
    THEN <<>>
    ELSE <<at>> \o Offsets(inner, Tail(ord), at + Len(inner[Head(ord)].b))
OffsetsOf(g) == Offsets(g.values.inner, g.values.order, 0)

\* the buffer get_bytes() returns next holds every encoding at its offset
EncodingsAtOffsets ==
  \E returned \in {Returned(group)}, offsets \in {OffsetsOf(group)} :
    \A name \in DOMAIN group.values.inner :
      /\ offsets[IndexOf(group.values.order, name)] = Offset(group, name)
      /\ Slice(returned, Offset(group, name), Len(Stored(group, name).b))
           = Stored(group, name).b

C18_Step ==
  \/ group'.values = group.values
  \/ /\ SubSeq(group'.values.order, 1, Len(group.values.order)) = group.values.order
     /\ SubSeq(OffsetsOf(group'), 1, Len(group.values.order)) = OffsetsOf(group)
     /\ \A name \in DOMAIN group.values.inner :
          /\ name \in DOMAIN group'.values.inner
          /\ Stored(group', name).tag = Stored(group, name).tag
          /\ Len(Stored(group', name).b) = Len(Stored(group, name).b)

\* C18: no int / float / vec2 / get_bytes call changes the variant, the
\* encoded length or the position in the insertion order of a registered
\* name: the order sequence only grows at its end and the offsets of the
\* names registered before a call are the same after it; and in every state
\* the buffer get_bytes() returns next holds each current encoding at its
\* offset.
C18_StableLayout == []EncodingsAtOffsets /\ [][C18_Step]_vars

\* the first of two registered values has just been changed
C18_Witness ==
  /\ Len(group.values.order) = 2
  /\ last.op \in Setters
  /\ last.outcome = "changed"
  /\ ~last.registered
  /\ group.values.order[1] = last.name
  /\ Stored(group, group.values.order[1]).tag # Stored(group, group.values.order[2]).tag

C19_Step ==
  last'.op = "get_bytes" =>
    /\ group'.name = group.name
    /\ group'.values = group.values
    /\ group'.size = group.size

\* C19: a get_bytes() call changes at most packed and needs_update: the
\* name, the registered values with their bytes, the insertion order and
\* size are the same before and after.
C19_GetBytesFrame == [][C19_Step]_vars

\* a get_bytes() call has just repacked a group of two values
C19_Witness ==
  /\ last.op = "get_bytes"
  /\ last.outcome = "repacked"
  /\ Len(group.values.order) = 2
  /\ group.packed # <<>>
  /\ ~group.needs_update

(***************************************************************************)
(* Controls::group                                                         *)
(***************************************************************************)
EmptyGroup(name) ==
  [name |-> name, values |-> [inner |-> EmptyFn, order |-> <<>>], packed |-> <<>>,
   needs_update |-> FALSE, size |-> 0]

C20_Step ==
  ctl_last'.op = "group" =>
    LET name == ctl_last'.name
        handed == IF name \in DOMAIN controls THEN controls[name] ELSE EmptyGroup(name)
    IN /\ ctl_last'.created = (name \notin DOMAIN controls)
       /\ DOMAIN controls' = (DOMAIN controls) \cup {name}
       /\ \A other \in (DOMAIN controls) \ {name} : controls'[other] = controls[other]
       /\ controls'[name] = Build(ctl_last'.build, handed, endian)
       /\ ctl_last'.build = <<>> => controls'[name] = handed

\* C20: Controls::group(name, build) creates a group, empty and not dirty,
\* only when name is not registered; for a registered name the builder works
\* on the group as it is, with its values, their order, packed and
\* needs_update, so a build that makes no call leaves it as it was; and no
\* other group is created, removed or changed.
C20_GroupPersistence == [][C20_Step]_vars

\* group() with a build that makes no call, on a registered group that holds
\* a value, is dirty or packed, while a second group exists
C20_Witness ==
  /\ ctl_last.op = "group"
  /\ ~ctl_last.created
  /\ ctl_last.build = <<>>
  /\ DOMAIN controls = GroupNames
  /\ controls[ctl_last.name].values.order # <<>>
  /\ controls[ctl_last.name].needs_update

====
